---- MODULE Spec2Model ----
(***************************************************************************)
(* FactCheck-AI: narrative consistency pipeline.                           *)
(*                                                                         *)
(* The repository holds no scoring or graph code of its own: every stage   *)
(* of src/reasoning.py builds a prompt and returns the text of call_llm.   *)
(* The scoring table, the score formula, the decision threshold and the    *)
(* orphan rule exist in the source only as the rules written into those    *)
(* prompts, and the value a stage returns is the reply of the oracle,      *)
(* which the code never checks against them.  The model computes what the  *)
(* rules define, as the prompt states them, and lets every reply be either *)
(* that value or one that departs from it: a property of the rules is      *)
(* stated for the replies that follow them.  src/pipeline.py is modelled   *)
(* as the Python it is, including the names it uses without importing      *)
(* them (os, re).                                                          *)
(*                                                                         *)
(* Numbers: penalties and scores are kept in tenths; a score is the exact  *)
(* fraction num/den, never rounded.                                        *)
(***************************************************************************)
EXTENDS Integers, Sequences, FiniteSets, TLC

VARIABLES
    pc,             \* position of the code under check
    claims,         \* ids of the claims of the story (extract_claims)
    importance,     \* claim -> MAJOR / MINOR           (classify_importance)
    weighted,       \* claim -> causal verdict           (causal_evaluation)
    memory_states,  \* claim -> transition type          (memory_state_propagation)
    dependencies,   \* set of <<claim id, prerequisite id>> (map_claim_dependencies)
    dependency_analysis, \* claim -> orphan status        (cross_claim_validation)
    counterfactuals,\* claim -> verification result      (verify_counterfactual_expectations)
    score_analysis, \* reply of calculate_contradiction_score
    decision,       \* reply of final_decision_with_score: a token sequence
    prediction,     \* local variable of parse_decision
    data_dir,       \* the files of DATA_DIR: <<prefix, story id>>
    submission_mode,\* the --submission flag
    reliable,       \* the stories for which no file read and no oracle call fails
    story_files,    \* run_pipeline: the sorted list of story files
    idx,            \* run_pipeline: how many of story_files the loop has taken
    log,            \* the steps completed for the story being processed
    results,        \* run_pipeline: the rows collected so far
    failed,         \* the stories whose processing raised (history)
    csv,            \* what write_results was given
    confidence_score, \* local variable of parse_decision
    rationale,      \* local variable of parse_decision
    query_text,     \* retrieve_evidence: the lines of its argument
    line_no,        \* retrieve_evidence: how many lines the loop has taken
    evidence,       \* retrieve_evidence: cid -> results
    HF_API_TOKEN,   \* llm_hf: whether the token is set
    retry_count,    \* local variable of call_llm
    responses,      \* call_llm: what its requests came back with (history)
    words,          \* local variable of chunk_text
    chunk_size,     \* argument of chunk_text
    overlap,        \* argument of chunk_text
    i,              \* local variable of chunk_text
    chunks          \* local variable of chunk_text

stage_vars == <<claims, importance, weighted, memory_states, dependencies,
                dependency_analysis, counterfactuals, score_analysis, decision,
                prediction>>

run_vars == <<data_dir, submission_mode, reliable, story_files, idx, log,
              results, failed, csv>>

parse_vars == <<confidence_score, rationale>>

evidence_vars == <<query_text, line_no, evidence>>

llm_vars == <<HF_API_TOKEN, retry_count, responses>>

chunk_vars == <<words, chunk_size, overlap, i, chunks>>

local_vars == <<parse_vars, evidence_vars, llm_vars, chunk_vars>>

vars == <<pc, stage_vars, run_vars, local_vars>>

-----------------------------------------------------------------------------
(* Bounds of the model *)

MaxClaims == 2

\* claims and dependency edges of the dependency graphs
MaxGraphClaims == 3
MaxEdges == 2

\* story ids that can have files in DATA_DIR
MaxStories == 3

-----------------------------------------------------------------------------
(* Vocabulary of the stage replies, as the prompts fix it *)

None == "None"

\* reasoning.py:38-51
Importances == {"MAJOR", "MINOR"}

\* reasoning.py:174-177
Verdicts == {"FATAL CONTRADICTION", "SOFT CONTRADICTION", "CONSISTENT"}

\* reasoning.py:207-210, 222
Transitions == {"GRADUAL", "SUDDEN", "IMPOSSIBLE"}

\* reasoning.py:259
OrphanStatuses == {"CAUSALLY ORPHANED", "VALID"}

\* reasoning.py:304
CounterfactualResults == {"SATISFIED", "VIOLATED", "UNKNOWN"}

-----------------------------------------------------------------------------
(* calculate_contradiction_score: the scoring rules of the prompt, in tenths *)

PenaltyMajorFatal == 10
PenaltyMajorSoft == 3
PenaltyMinor == 2
PenaltyImpossible == 5
PenaltyOrphaned == 4
PenaltyViolated == 5
PossiblePerMajor == 10

IsContradiction(v) == v \in {"FATAL CONTRADICTION", "SOFT CONTRADICTION"}

\* CausalPenalty with the importance test of the SOFT rule lost: every SOFT
\* CONTRADICTION costs the MINOR penalty
CausalPenalty_SoftAsMinor(imp, v) ==
    IF imp = "MAJOR" /\ v = "FATAL CONTRADICTION" THEN PenaltyMajorFatal
    ELSE IF IsContradiction(v) THEN PenaltyMinor
    ELSE 0

\* Scoring rules, causal lines: MAJOR+FATAL, MAJOR+SOFT, MINOR contradiction
CausalPenalty(imp, v) ==
    IF imp = "MAJOR" /\ v = "FATAL CONTRADICTION" THEN PenaltyMajorFatal
    ELSE IF imp = "MAJOR" /\ v = "SOFT CONTRADICTION" THEN PenaltyMajorSoft
    ELSE IF imp = "MINOR" /\ IsContradiction(v) THEN PenaltyMinor
    ELSE 0

MemoryPenalty(t) == IF t = "IMPOSSIBLE" THEN PenaltyImpossible ELSE 0

DependencyPenalty(o) == IF o = "CAUSALLY ORPHANED" THEN PenaltyOrphaned ELSE 0

CounterfactualPenalty(r) == IF r = "VIOLATED" THEN PenaltyViolated ELSE 0

\* every rule applies to every claim: the penalties of one claim add up
ClaimPenalty(c) ==
    CausalPenalty(importance[c], weighted[c])
    + MemoryPenalty(memory_states[c])
    + DependencyPenalty(dependency_analysis[c])
    + CounterfactualPenalty(counterfactuals[c])

RECURSIVE SumOver(_, _)
SumOver(S, f) ==
    IF S = {} THEN 0
    ELSE LET c == CHOOSE x \in S : TRUE IN f[c] + SumOver(S \ {c}, f)

\* "1. Total penalty from all claims"
TotalPenalty == SumOver(claims, [c \in claims |-> ClaimPenalty(c)])

\* "2. Total possible penalty (# of MAJOR claims x 1.0)"
TotalPossible ==
    PossiblePerMajor * Cardinality({c \in claims : importance[c] = "MAJOR"})

\* "3. Final Score = 1.0 - (Total Penalty / Total Possible)", as the exact
\* fraction (possible - penalty) / possible; den = 0 is the division by zero
FinalScore(penalty, possible) == [num |-> possible - penalty, den |-> possible]

Defined(s) == s.den > 0

\* the reply the scoring rules define for the analyses at hand; where rule 3
\* divides by zero it holds no number (the fraction with den = 0)
ScoreByRule ==
    [total_penalty |-> TotalPenalty,
     total_possible |-> TotalPossible,
     final_score |-> FinalScore(TotalPenalty, TotalPossible)]

\* a reply of the output format that departs from the rules: no penalty
\* counted at all
OffRuleScores ==
    {[total_penalty |-> 0,
      total_possible |-> TotalPossible,
      final_score |-> [num |-> 10, den |-> 10]]}

\* reasoning.py:320-376.  call_llm raises or returns the reply, which is
\* returned as it is.
CalculateContradictionScore ==
    /\ pc = "calculate_contradiction_score"
    /\ \/ /\ pc' = "raised"
          /\ UNCHANGED score_analysis
       \/ /\ pc' = "final_decision_with_score"
          /\ score_analysis' \in {ScoreByRule} \cup OffRuleScores
    /\ UNCHANGED run_vars
    /\ UNCHANGED local_vars
    /\ UNCHANGED <<claims, importance, weighted, memory_states, dependencies,
                   dependency_analysis, counterfactuals, decision, prediction>>

-----------------------------------------------------------------------------
(* final_decision_with_score: the decision rules of the prompt *)

\* the threshold 0.4, in tenths
DecisionThreshold == 4

\* "Contradiction Score < 0.4": num/den < 4/10
BelowThreshold(s) == 10 * s.num < DecisionThreshold * s.den

\* "Contradiction Score < 0.4 -> Output 0", ">= 0.4 -> Output 1"; the
\* rules name no output for a score that is no number
DecisionRule(s) ==
    IF ~Defined(s) THEN {0, 1}
    ELSE IF BelowThreshold(s) THEN {0}
    ELSE {1}

Digit(p) == IF p = 0 THEN "0" ELSE "1"

\* the output format of the prompt, as tokens
DecisionText(p) ==
    <<"Prediction:", " ", Digit(p), "\n",
      "Confidence Score:", " ", "<score>", "\n",
      "Rationale:", " ", "<failure>", " ", "\"", "<quote>", "\"">>

\* reasoning.py:380-419.  call_llm raises or returns the reply: either
\* prediction, whatever the score.
FinalDecisionWithScore ==
    /\ pc = "final_decision_with_score"
    /\ \/ /\ pc' = "raised"
          /\ UNCHANGED decision
       \/ /\ pc' = "parse_decision"
          /\ \E p \in {0, 1} : decision' = DecisionText(p)
    /\ UNCHANGED run_vars
    /\ UNCHANGED local_vars
    /\ UNCHANGED <<claims, importance, weighted, memory_states, dependencies,
                   dependency_analysis, counterfactuals, score_analysis,
                   prediction>>

-----------------------------------------------------------------------------
(* parse_decision *)

\* the names bound in the namespace of pipeline.py: its imports and its defs
PipelineGlobals ==
    {"build_vector_index", "extract_claims", "classify_importance",
     "generate_queries", "retrieve_evidence", "temporal_analysis",
     "causal_evaluation", "memory_state_propagation",
     "calculate_contradiction_score", "final_decision_with_score",
     "map_claim_dependencies", "cross_claim_validation",
     "verify_counterfactual_expectations", "write_results", "argparse",
     "DATA_DIR", "load_text", "parse_decision", "run_pipeline"}

\* `needle in text`, on tokens
Contains(text, needle) ==
    \E ix \in 1..Len(text) :
        /\ ix + Len(needle) - 1 <= Len(text)
        /\ \A j \in 1..Len(needle) : text[ix + j - 1] = needle[j]

\* pipeline.py:33-35
ParsePrediction(decision_output) ==
    IF \/ Contains(decision_output, <<"Prediction:", " ", "0">>)
       \/ Contains(decision_output, <<"Prediction:", "0">>)
    THEN 0
    ELSE 1

ParseDecisionPrediction ==
    /\ pc = "parse_decision"
    /\ prediction' = ParsePrediction(decision)
    /\ pc' = "parse_decision_40"
    /\ UNCHANGED run_vars
    /\ UNCHANGED local_vars
    /\ UNCHANGED <<claims, importance, weighted, memory_states, dependencies,
                   dependency_analysis, counterfactuals, score_analysis,
                   decision>>

Whitespace == {" ", "\n"}

\* the values a text can state after "Confidence Score:"
ConfidenceValues == {"0.85", ".5", "1.0", "1.5", "high"}

\* the values the group (0?\.\d+|1\.0) of the pattern of line 40 matches
ScoreGroup == {"0.85", ".5", "1.0"}

\* float(score_match.group(1)), in hundredths
Float(value) ==
    CASE value = "0.85" -> 85
      [] value = ".5" -> 50
      [] value = "1.0" -> 100

\* the place of the first token of text at or after k that \s* leaves
RECURSIVE SkipWhitespace(_, _)
SkipWhitespace(text, k) ==
    IF k <= Len(text) /\ text[k] \in Whitespace
    THEN SkipWhitespace(text, k + 1)
    ELSE k

\* the places where 'Confidence Score:\s*(0?\.\d+|1\.0)' matches
ScoreMatches(text) ==
    {k \in 1..Len(text) :
        /\ text[k] = "Confidence Score:"
        /\ SkipWhitespace(text, k + 1) <= Len(text)
        /\ text[SkipWhitespace(text, k + 1)] \in ScoreGroup}

\* the defaults of line 49, in hundredths
DefaultConfidenceZero == 20
DefaultConfidenceOne == 80

\* pipeline.py:38-49, re.search taking the leftmost match
ParseConfidence(decision_output, pred) ==
    IF ScoreMatches(decision_output) # {}
    THEN LET k == CHOOSE m \in ScoreMatches(decision_output) :
                      \A n \in ScoreMatches(decision_output) : m <= n
         IN Float(decision_output[SkipWhitespace(decision_output, k + 1)])
    ELSE IF pred = 0 THEN DefaultConfidenceZero ELSE DefaultConfidenceOne

\* s.lstrip(chars)
RECURSIVE LStrip(_, _)
LStrip(s, chars) ==
    IF s # <<>> /\ Head(s) \in chars THEN LStrip(Tail(s), chars) ELSE s

\* s.rstrip(chars)
RECURSIVE RStrip(_, _)
RStrip(s, chars) ==
    IF s # <<>> /\ s[Len(s)] \in chars
    THEN RStrip(SubSeq(s, 1, Len(s) - 1), chars)
    ELSE s

\* s.strip(chars)
Strip(s, chars) == RStrip(LStrip(s, chars), chars)

\* text.split(label)[-1]: what follows the last label
AfterLast(text, label) ==
    LET k == CHOOSE m \in 1..Len(text) :
                 /\ text[m] = label
                 /\ \A n \in (m + 1)..Len(text) : text[n] # label
    IN SubSeq(text, k + 1, Len(text))

\* s.split("\n")[0]
RECURSIVE FirstLine(_)
FirstLine(s) ==
    IF s = <<>> \/ Head(s) = "\n" THEN <<>>
    ELSE <<Head(s)>> \o FirstLine(Tail(s))

DefaultRationale == <<"No rationale provided">>

\* pipeline.py:51-55
ParseRationale(decision_output) ==
    IF Contains(decision_output, <<"Rationale:">>)
    THEN LET after == Strip(AfterLast(decision_output, "Rationale:"),
                            Whitespace)
             line == Strip(FirstLine(after), Whitespace)
         IN Strip(Strip(line, {"\""}), {"'"})
    ELSE DefaultRationale

\* pipeline.py:37-57: re.search looks the global name re up at line 40, and
\* the name is bound nowhere in pipeline.py
ParseDecisionConfidence ==
    /\ pc = "parse_decision_40"
    /\ IF "re" \in PipelineGlobals
       THEN /\ pc' = "parsed"
            /\ confidence_score' = ParseConfidence(decision, prediction)
            /\ rationale' = ParseRationale(decision)
            /\ UNCHANGED prediction
       ELSE /\ pc' = "raised"
            /\ prediction' = None
            /\ UNCHANGED parse_vars
    /\ UNCHANGED run_vars
    /\ UNCHANGED <<evidence_vars, llm_vars, chunk_vars>>
    /\ UNCHANGED <<claims, importance, weighted, memory_states, dependencies,
                   dependency_analysis, counterfactuals, score_analysis,
                   decision>>

-----------------------------------------------------------------------------
(* The scoring and decision stages on every input of the bounded vocabulary *)

\* no call of parse_decision, retrieve_evidence, call_llm or chunk_text is
\* under way
NoCall ==
    /\ confidence_score = None
    /\ rationale = None
    /\ query_text = <<>>
    /\ line_no = 0
    /\ evidence = <<>>
    /\ HF_API_TOKEN = FALSE
    /\ retry_count = 0
    /\ responses = <<>>
    /\ words = <<>>
    /\ chunk_size = 0
    /\ overlap = 0
    /\ i = 0
    /\ chunks = <<>>

\* no run of the pipeline is under way
NoRun ==
    /\ data_dir = {}
    /\ submission_mode = FALSE
    /\ reliable = {}
    /\ story_files = <<>>
    /\ idx = 0
    /\ log = <<>>
    /\ results = <<>>
    /\ failed = {}
    /\ csv = None

ClaimIds == {1..n : n \in 0..MaxClaims}

\* FATAL CONTRADICTION "only for MAJOR claims" (reasoning.py:175)
CausalAnalyses(cs, imp) ==
    {w \in [cs -> Verdicts] :
        \A c \in cs : w[c] = "FATAL CONTRADICTION" => imp[c] = "MAJOR"}

\* memory states and counterfactuals are produced "For each MAJOR claim"
\* (reasoning.py:205, 287)
PerMajor(cs, imp, values) ==
    {f \in [cs -> values \cup {None}] :
        \A c \in cs : (f[c] = None) <=> (imp[c] = "MINOR")}

InitScore ==
    /\ pc = "calculate_contradiction_score"
    /\ claims \in ClaimIds
    /\ importance \in [claims -> Importances]
    /\ weighted \in CausalAnalyses(claims, importance)
    /\ memory_states \in PerMajor(claims, importance, Transitions)
    /\ dependencies = {}
    /\ dependency_analysis \in [claims -> OrphanStatuses]
    /\ counterfactuals \in PerMajor(claims, importance, CounterfactualResults)
    /\ score_analysis = None
    /\ decision = <<>>
    /\ prediction = None
    /\ NoRun
    /\ NoCall

NextScore ==
    \/ CalculateContradictionScore
    \/ FinalDecisionWithScore
    \/ ParseDecisionPrediction
    \/ ParseDecisionConfidence

SpecScore == InitScore /\ [][NextScore]_vars

-----------------------------------------------------------------------------
(* Claims C1-C4: the score and the decision *)

Scored ==
    pc \in {"final_decision_with_score", "parse_decision", "parse_decision_40"}

Parsing == pc = "parse_decision_40"

Majors == {c \in claims : importance[c] = "MAJOR"}

\* the reply of calculate_contradiction_score is the one its rules define
ScoreFollowsRules == score_analysis = ScoreByRule

\* the reply of final_decision_with_score is one its rules allow
DecisionFollowsRules ==
    \E p \in DecisionRule(score_analysis.final_score) :
        decision = DecisionText(p)

\* C1: for every scoring input the final score lies in [0, 1], also when the
\* total penalty exceeds the total possible penalty.  Stated for the replies
\* that follow the scoring rules, on the inputs with a MAJOR claim, where
\* rule 3 defines a number.
C1_ScoreInUnitInterval ==
    (Scored /\ ScoreFollowsRules /\ score_analysis.total_possible > 0) =>
        /\ 0 <= score_analysis.final_score.num
        /\ score_analysis.final_score.num <= score_analysis.final_score.den

\* C2: with no MAJOR claim the final score is 1.0 and the prediction is 1,
\* whatever penalties were accumulated.  Stated for the replies that follow
\* the scoring and the decision rules.
C2_NoMajorScoreOne ==
    (Scored /\ ScoreFollowsRules /\ Majors = {}) =>
        /\ Defined(score_analysis.final_score)
        /\ score_analysis.final_score.num = score_analysis.final_score.den
        /\ (Parsing /\ DecisionFollowsRules) => prediction = 1

\* the penalty table as the claim gives it, in tenths
C3_TablePenalty(c) ==
    (IF importance[c] = "MAJOR" /\ weighted[c] = "FATAL CONTRADICTION"
        THEN 10 ELSE 0)
    + (IF importance[c] = "MAJOR" /\ weighted[c] = "SOFT CONTRADICTION"
        THEN 3 ELSE 0)
    + (IF importance[c] = "MINOR" /\ weighted[c] # "CONSISTENT" THEN 2 ELSE 0)
    + (IF memory_states[c] = "IMPOSSIBLE" THEN 5 ELSE 0)
    + (IF dependency_analysis[c] = "CAUSALLY ORPHANED" THEN 4 ELSE 0)
    + (IF counterfactuals[c] = "VIOLATED" THEN 5 ELSE 0)

C3_NoOtherSignal(c) ==
    /\ memory_states[c] # "IMPOSSIBLE"
    /\ dependency_analysis[c] # "CAUSALLY ORPHANED"

\* one MAJOR claim with FATAL CONTRADICTION and no other signal
C3_OneFatal ==
    /\ claims = {1}
    /\ importance[1] = "MAJOR"
    /\ weighted[1] = "FATAL CONTRADICTION"
    /\ C3_NoOtherSignal(1)
    /\ counterfactuals[1] # "VIOLATED"

\* two MAJOR claims, one CONSISTENT, one SOFT with a VIOLATED counterfactual
C3_SoftAndViolated ==
    /\ claims = {1, 2}
    /\ \A c \in claims : importance[c] = "MAJOR" /\ C3_NoOtherSignal(c)
    /\ weighted[1] = "CONSISTENT"
    /\ counterfactuals[1] # "VIOLATED"
    /\ weighted[2] = "SOFT CONTRADICTION"
    /\ counterfactuals[2] = "VIOLATED"

\* the totals of the claim and its two worked examples, 1.0/1.0/0.0/0 and
\* 0.8/2.0/0.6/1; decided tells whether the prediction is to be looked at
C3_Totals(decided) ==
    /\ score_analysis.total_penalty =
          SumOver(claims, [c \in claims |-> C3_TablePenalty(c)])
    /\ score_analysis.total_possible = 10 * Cardinality(Majors)
    /\ C3_OneFatal =>
          /\ score_analysis.total_penalty = 10
          /\ score_analysis.total_possible = 10
          /\ score_analysis.final_score = [num |-> 0, den |-> 10]
          /\ decided => prediction = 0
    /\ C3_SoftAndViolated =>
          /\ score_analysis.total_penalty = 8
          /\ score_analysis.total_possible = 20
          /\ 10 * score_analysis.final_score.num
                = 6 * score_analysis.final_score.den
          /\ decided => prediction = 1

C4_PredictionByScoreAlone ==
    (Parsing /\ ScoreFollowsRules /\ DecisionFollowsRules) =>
        LET s == score_analysis.final_score IN
        /\ prediction \in {0, 1}
        /\ prediction = 0 <=> (Defined(s) /\ 10 * s.num < 4 * s.den)
        /\ prediction = 1 <=> (Defined(s) /\ 10 * s.num >= 4 * s.den)

-----------------------------------------------------------------------------
(* map_claim_dependencies, causal_evaluation, cross_claim_validation *)

Fatal(id) == id \in DOMAIN weighted /\ weighted[id] = "FATAL CONTRADICTION"

\* OrphanRule with the edge read backwards: the prerequisite of a FATAL claim
\* is orphaned
OrphanRule_Reversed(c) ==
    IF \E e \in dependencies : e[2] = c /\ Fatal(e[1])
    THEN "CAUSALLY ORPHANED"
    ELSE "VALID"

\* OrphanRule with a prerequisite that has no verdict counted as contradicted
OrphanRule_UnknownFatal(c) ==
    IF \E e \in dependencies :
          e[1] = c /\ (e[2] \notin DOMAIN weighted \/ Fatal(e[2]))
    THEN "CAUSALLY ORPHANED"
    ELSE "VALID"

\* OrphanRule with a claim that is itself FATAL counted as its own root
OrphanRule_SelfRoot(c) ==
    IF Fatal(c) \/ \E e \in dependencies : e[1] = c /\ Fatal(e[2])
    THEN "CAUSALLY ORPHANED"
    ELSE "VALID"

\* OrphanRule with every contradiction of the prerequisite counted, not only
\* the FATAL one
OrphanRule_AnyContradiction(c) ==
    IF \E e \in dependencies :
          e[1] = c /\ e[2] \in DOMAIN weighted /\ IsContradiction(weighted[e[2]])
    THEN "CAUSALLY ORPHANED"
    ELSE "VALID"

\* "A claim is orphaned if: It is a dependent claim.  Its prerequisite Root
\* Claim has a FATAL CONTRADICTION."  Otherwise "Status: VALID".
OrphanStatus(c, deps) ==
    IF \E e \in deps : e[1] = c /\ Fatal(e[2])
    THEN "CAUSALLY ORPHANED"
    ELSE "VALID"

\* the status of claim c in the reply of cross_claim_validation(claims,
\* causal_analysis, dependencies)
OrphanRule(c) == OrphanStatus(c, dependencies)

\* the ids a dependency line can name: the claims and an id of no claim
UnknownId(cs) == Cardinality(cs) + 1

EdgeIds(cs) == cs \cup {UnknownId(cs)}

RECURSIVE SetsUpTo(_, _)
SetsUpTo(E, k) ==
    IF k = 0 THEN {{}}
    ELSE LET smaller == SetsUpTo(E, k - 1)
         IN smaller \cup {d \cup {e} : d \in smaller, e \in E}

\* "Claim ID -> Prerequisite ID (Reason)": any lines the oracle writes
DependencyMaps(cs) == SetsUpTo(EdgeIds(cs) \X EdgeIds(cs), MaxEdges)

\* reasoning.py:60-80
MapClaimDependencies ==
    /\ pc = "map_claim_dependencies"
    /\ \/ /\ pc' = "raised"
          /\ UNCHANGED dependencies
       \/ /\ pc' = "causal_evaluation"
          /\ dependencies' \in DependencyMaps(claims)
    /\ UNCHANGED run_vars
    /\ UNCHANGED local_vars
    /\ UNCHANGED <<claims, importance, weighted, memory_states,
                   dependency_analysis, counterfactuals, score_analysis,
                   decision, prediction>>

\* reasoning.py:167-194
CausalEvaluation ==
    /\ pc = "causal_evaluation"
    /\ \/ /\ pc' = "raised"
          /\ UNCHANGED weighted
       \/ /\ pc' = "cross_claim_validation"
          /\ weighted' \in CausalAnalyses(claims, importance)
    /\ UNCHANGED run_vars
    /\ UNCHANGED local_vars
    /\ UNCHANGED <<claims, importance, memory_states, dependencies,
                   dependency_analysis, counterfactuals, score_analysis,
                   decision, prediction>>

\* the reply the orphan rule defines for the claims, verdicts and edges at
\* hand
OrphanByRule == [c \in claims |-> OrphanRule(c)]

\* a reply that departs from the rule: the status of the first claim is the
\* other one
OffRuleOrphans ==
    {[OrphanByRule EXCEPT ![1] = CHOOSE o \in OrphanStatuses : o # @]}

\* reasoning.py:239-271, call_llm returns; the reply is returned as it is
CrossClaimValidationReturns ==
    /\ pc = "cross_claim_validation"
    /\ pc' = "validated"
    /\ dependency_analysis' \in {OrphanByRule} \cup OffRuleOrphans
    /\ UNCHANGED run_vars
    /\ UNCHANGED local_vars
    /\ UNCHANGED <<claims, importance, weighted, memory_states, dependencies,
                   counterfactuals, score_analysis, decision, prediction>>

\* reasoning.py:239-271, call_llm raises
CrossClaimValidationRaises ==
    /\ pc = "cross_claim_validation"
    /\ pc' = "raised"
    /\ UNCHANGED run_vars
    /\ UNCHANGED local_vars
    /\ UNCHANGED <<claims, importance, weighted, memory_states, dependencies,
                   dependency_analysis, counterfactuals, score_analysis,
                   decision, prediction>>

CrossClaimValidation ==
    \/ CrossClaimValidationReturns
    \/ CrossClaimValidationRaises

GraphClaimIds == {1..n : n \in 1..MaxGraphClaims}

\* The orphan rule reads the claims, the edges and the verdicts, never the
\* importance: every claim is taken MAJOR, which leaves every verdict open
\* to every claim.
InitOrphan ==
    /\ pc = "map_claim_dependencies"
    /\ claims \in GraphClaimIds
    /\ importance = [c \in claims |-> "MAJOR"]
    /\ weighted = <<>>
    /\ memory_states = <<>>
    /\ dependencies = {}
    /\ dependency_analysis = <<>>
    /\ counterfactuals = <<>>
    /\ score_analysis = None
    /\ decision = <<>>
    /\ prediction = None
    /\ NoRun
    /\ NoCall

NextOrphan ==
    \/ MapClaimDependencies
    \/ CausalEvaluation
    \/ CrossClaimValidation

SpecOrphan == InitOrphan /\ [][NextOrphan]_vars

\* the stages run one after the other on a single thread: a stage that can
\* take its step takes it
SpecOrphanFair == SpecOrphan /\ WF_vars(NextOrphan)

-----------------------------------------------------------------------------
(* Claims C5-C8: orphan status over the dependency graph *)

Validated == pc = "validated"

Orphaned(c) == dependency_analysis[c] = "CAUSALLY ORPHANED"

\* the edges whose two ends are claims
ResolvedEdges == {e \in dependencies : e[1] \in claims /\ e[2] \in claims}

Prerequisites(S) == {e[2] : e \in {x \in ResolvedEdges : x[1] \in S}}

RECURSIVE Closure(_)
Closure(S) ==
    LET T == S \cup Prerequisites(S) IN IF T = S THEN S ELSE Closure(T)

\* the claims c depends on, through one or more edges
Ancestors(c) == Closure(Prerequisites({c}))

\* the reply of cross_claim_validation is the one the orphan rule defines
OrphanFollowsRule == dependency_analysis = OrphanByRule

\* a claim is orphaned only through a prerequisite, direct or transitive,
\* that is a FATAL CONTRADICTION, and never without an outgoing edge
C5_Sound ==
    \A c \in claims :
        /\ Orphaned(c) => \E p \in Ancestors(c) : Fatal(p)
        /\ (\A e \in dependencies : e[1] # c) => ~Orphaned(c)

C6_Chain(a, b, c) ==
    /\ dependencies = {<<a, b>>, <<b, c>>}
    /\ a # b /\ b # c /\ a # c
    /\ Fatal(c) /\ ~Fatal(a) /\ ~Fatal(b)

C7_Cycle(a, b) == <<a, b>> \in dependencies /\ <<b, a>> \in dependencies

C7_CleanCycleValid ==
    (Validated /\ OrphanFollowsRule) =>
        \A a, b \in claims :
            (C7_Cycle(a, b) /\ \A p \in Ancestors(a) : ~Fatal(p))
                => ~Orphaned(a) /\ ~Orphaned(b)

C8_AsResolved ==
    \A c \in claims : dependency_analysis[c] = OrphanStatus(c, ResolvedEdges)

-----------------------------------------------------------------------------
(* run_pipeline *)

StoryIds == 1..MaxStories

\* the files DATA_DIR can hold: story_<id>.txt and backstory_<id>.txt
FileNames == {"story_", "backstory_"} \X StoryIds

RECURSIVE SortedSeq(_)
SortedSeq(S) ==
    IF S = {} THEN <<>>
    ELSE LET least == CHOOSE x \in S : \A y \in S : x <= y
         IN <<least>> \o SortedSeq(S \ {least})

\* pipeline.py:65: sorted([f for f in os.listdir(DATA_DIR) if
\* f.startswith("story_")])
StoryFiles(dir) ==
    LET ids == SortedSeq({f[2] : f \in {g \in dir : g[1] = "story_"}})
    IN [ix \in 1..Len(ids) |-> <<"story_", ids[ix]>>]

\* pipeline.py:79: fname.replace("story_", "").replace(".txt", "")
StoryId(fname) == fname[2]

\* pipeline.py:193-206
Main ==
    /\ pc = "main"
    /\ pc' = "run_pipeline"
    /\ submission_mode' \in BOOLEAN
    /\ UNCHANGED <<data_dir, reliable, story_files, idx, log, results, failed,
                   csv>>
    /\ UNCHANGED stage_vars
    /\ UNCHANGED local_vars

\* pipeline.py:60-76: os.listdir looks the global name os up, outside any try
RunPipeline ==
    /\ pc = "run_pipeline"
    /\ IF "os" \in PipelineGlobals
       THEN /\ story_files' = StoryFiles(data_dir)
            /\ pc' = IF story_files' = <<>> THEN "returned" ELSE "for"
       ELSE /\ pc' = "aborted"
            /\ UNCHANGED story_files
    /\ results' = <<>>
    /\ UNCHANGED <<data_dir, submission_mode, reliable, idx, log, failed, csv>>
    /\ UNCHANGED stage_vars
    /\ UNCHANGED local_vars

NoStage ==
    /\ claims = {}
    /\ importance = <<>>
    /\ weighted = <<>>
    /\ memory_states = <<>>
    /\ dependencies = {}
    /\ dependency_analysis = <<>>
    /\ counterfactuals = <<>>
    /\ score_analysis = None
    /\ decision = <<>>
    /\ prediction = None

\* the program from its start: python pipeline.py [--submission]
Init ==
    /\ pc = "main"
    /\ data_dir \in SUBSET FileNames
    /\ reliable \in SUBSET StoryIds
    /\ submission_mode = FALSE
    /\ story_files = <<>>
    /\ idx = 0
    /\ log = <<>>
    /\ results = <<>>
    /\ failed = {}
    /\ csv = None
    /\ NoStage
    /\ NoCall

\* run_pipeline never gets past line 65, so the loop of lines 78-181 is no
\* part of the program's behaviour from its start: SpecLoop specifies it
Next ==
    \/ Main
    \/ RunPipeline

Spec == Init /\ [][Next]_vars

-----------------------------------------------------------------------------
(* run_pipeline: the loop over the story files, lines 78-190 *)

\* PipelineSteps with the score computed before the counterfactuals
PipelineSteps_ScoreEarly ==
    <<"load_text", "build_vector_index", "extract_claims",
      "classify_importance", "map_claim_dependencies", "generate_queries",
      "retrieve_evidence", "temporal_analysis", "causal_evaluation",
      "memory_state_propagation", "cross_claim_validation",
      "calculate_contradiction_score", "verify_counterfactual_expectations",
      "final_decision_with_score", "parse_decision">>

\* the statements of the try block, in the order of the source
PipelineSteps ==
    <<"load_text", "build_vector_index", "extract_claims",
      "classify_importance", "map_claim_dependencies", "generate_queries",
      "retrieve_evidence", "temporal_analysis", "causal_evaluation",
      "memory_state_propagation", "cross_claim_validation",
      "verify_counterfactual_expectations", "calculate_contradiction_score",
      "final_decision_with_score", "parse_decision">>

\* the steps whose results are the arguments of the call of `step`
Consumes(step) ==
    CASE step = "load_text" -> {}
      [] step = "build_vector_index" -> {"load_text"}
      [] step = "extract_claims" -> {"load_text"}
      [] step = "classify_importance" -> {"extract_claims"}
      [] step = "map_claim_dependencies" -> {"extract_claims"}
      [] step = "generate_queries" -> {"extract_claims"}
      [] step = "retrieve_evidence" -> {"generate_queries", "build_vector_index"}
      [] step = "temporal_analysis" -> {"extract_claims", "retrieve_evidence"}
      [] step = "causal_evaluation" ->
            {"extract_claims", "classify_importance", "temporal_analysis"}
      [] step = "memory_state_propagation" ->
            {"extract_claims", "temporal_analysis", "classify_importance"}
      [] step = "cross_claim_validation" ->
            {"extract_claims", "causal_evaluation", "map_claim_dependencies"}
      [] step = "verify_counterfactual_expectations" ->
            {"extract_claims", "retrieve_evidence", "classify_importance"}
      [] step = "calculate_contradiction_score" ->
            {"causal_evaluation", "memory_state_propagation",
             "cross_claim_validation", "verify_counterfactual_expectations"}
      [] step = "final_decision_with_score" ->
            {"causal_evaluation", "memory_state_propagation",
             "calculate_contradiction_score", "cross_claim_validation",
             "verify_counterfactual_expectations"}
      [] step = "parse_decision" -> {"final_decision_with_score"}

StepIndex(step) == CHOOSE ix \in 1..Len(PipelineSteps) : PipelineSteps[ix] = step

StepAfter(step) == PipelineSteps[StepIndex(step) + 1]

\* the story of the current pass of the loop
CurrentStory == StoryId(story_files[idx])

\* pipeline.py:78-85 and 183
ForNextStory ==
    /\ pc = "for"
    /\ \/ /\ idx = Len(story_files)
          /\ pc' = "write"
          /\ UNCHANGED <<idx, log>>
       \/ /\ idx < Len(story_files)
          /\ <<"backstory_", StoryId(story_files[idx + 1])>> \notin data_dir
          /\ idx' = idx + 1
          /\ pc' = "for"
          /\ UNCHANGED log
       \/ /\ idx < Len(story_files)
          /\ <<"backstory_", StoryId(story_files[idx + 1])>> \in data_dir
          /\ idx' = idx + 1
          /\ pc' = PipelineSteps[1]
          /\ log' = <<>>
    /\ UNCHANGED <<data_dir, submission_mode, reliable, story_files, results,
                   failed, csv>>
    /\ UNCHANGED stage_vars
    /\ UNCHANGED local_vars

\* the call of `step` returns and its result is bound
Returns(step) ==
    /\ pc = step
    /\ log' = Append(log, step)
    /\ pc' = StepAfter(step)
    /\ UNCHANGED <<data_dir, submission_mode, reliable, story_files, idx,
                   results, failed, csv>>
    /\ UNCHANGED stage_vars
    /\ UNCHANGED local_vars

\* the call of `step` raises: a file that cannot be read (load_text), or
\* call_llm (llm_hf.py:36, 68, 81, 83)
Raises(step) ==
    /\ pc = step
    /\ CurrentStory \notin reliable
    /\ pc' = "except"
    /\ failed' = failed \cup {CurrentStory}
    /\ UNCHANGED <<data_dir, submission_mode, reliable, story_files, idx, log,
                   results, csv>>
    /\ UNCHANGED stage_vars
    /\ UNCHANGED local_vars

\* pipeline.py:92-93
RunLoadText == Returns("load_text") \/ Raises("load_text")

\* pipeline.py:97; retrieval.py:53-93 falls back instead of raising
RunBuildVectorIndex == Returns("build_vector_index")

\* pipeline.py:101
RunExtractClaims == Returns("extract_claims") \/ Raises("extract_claims")

\* pipeline.py:106
RunClassifyImportance ==
    Returns("classify_importance") \/ Raises("classify_importance")

\* pipeline.py:111
RunMapClaimDependencies ==
    Returns("map_claim_dependencies") \/ Raises("map_claim_dependencies")

\* pipeline.py:116
RunGenerateQueries == Returns("generate_queries") \/ Raises("generate_queries")

\* pipeline.py:121; reasoning.py:107-117 catches what a query raises
RunRetrieveEvidence == Returns("retrieve_evidence")

\* pipeline.py:126
RunTemporalAnalysis ==
    Returns("temporal_analysis") \/ Raises("temporal_analysis")

\* pipeline.py:131
RunCausalEvaluation ==
    Returns("causal_evaluation") \/ Raises("causal_evaluation")

\* pipeline.py:136
RunMemoryStatePropagation ==
    Returns("memory_state_propagation") \/ Raises("memory_state_propagation")

\* pipeline.py:141
RunCrossClaimValidation ==
    Returns("cross_claim_validation") \/ Raises("cross_claim_validation")

\* pipeline.py:146
RunVerifyCounterfactualExpectations ==
    \/ Returns("verify_counterfactual_expectations")
    \/ Raises("verify_counterfactual_expectations")

\* pipeline.py:151
RunCalculateContradictionScore ==
    \/ Returns("calculate_contradiction_score")
    \/ Raises("calculate_contradiction_score")

\* pipeline.py:156
RunFinalDecisionWithScore ==
    Returns("final_decision_with_score") \/ Raises("final_decision_with_score")

\* pipeline.py:170-175
Row(story) ==
    IF submission_mode
    THEN <<story, "prediction", "rationale">>
    ELSE <<story, "prediction", "confidence_score", "rationale">>

\* pipeline.py:160-175: parse_decision looks the global name re up at its
\* line 40 and raises NameError before it returns
RunParseDecision ==
    /\ pc = "parse_decision"
    /\ IF "re" \in PipelineGlobals
       THEN /\ results' = Append(results, Row(CurrentStory))
            /\ log' = Append(log, "parse_decision")
            /\ pc' = "for"
            /\ UNCHANGED failed
       ELSE /\ pc' = "except"
            /\ failed' = failed \cup {CurrentStory}
            /\ UNCHANGED <<results, log>>
    /\ UNCHANGED <<data_dir, submission_mode, reliable, story_files, idx, csv>>
    /\ UNCHANGED stage_vars
    /\ UNCHANGED local_vars

\* pipeline.py:177-181
HandleException ==
    /\ pc = "except"
    /\ pc' = "for"
    /\ UNCHANGED run_vars
    /\ UNCHANGED stage_vars
    /\ UNCHANGED local_vars

\* csv_writer.py:19-22
Columns(rows, include_confidence) ==
    IF include_confidence /\ rows # <<>> /\ Len(rows[1]) = 4
    THEN <<"story_id", "prediction", "confidence_score", "rationale">>
    ELSE <<"story_id", "prediction", "rationale">>

\* pipeline.py:183-190
WriteResults ==
    /\ pc = "write"
    /\ pc' = "done"
    /\ csv' = IF results # <<>>
              THEN [columns |-> Columns(results, ~submission_mode),
                    rows |-> results]
              ELSE None
    /\ UNCHANGED <<data_dir, submission_mode, reliable, story_files, idx, log,
                   results, failed>>
    /\ UNCHANGED stage_vars
    /\ UNCHANGED local_vars

\* the state on entry to the for statement of line 78, for every list of
\* story files line 65 can build
InitLoop ==
    /\ pc = "for"
    /\ data_dir \in SUBSET FileNames
    /\ story_files = StoryFiles(data_dir)
    /\ story_files # <<>>
    /\ reliable \in SUBSET StoryIds
    /\ submission_mode \in BOOLEAN
    /\ idx = 0
    /\ log = <<>>
    /\ results = <<>>
    /\ failed = {}
    /\ csv = None
    /\ NoStage
    /\ NoCall

NextLoop ==
    \/ ForNextStory
    \/ RunLoadText
    \/ RunBuildVectorIndex
    \/ RunExtractClaims
    \/ RunClassifyImportance
    \/ RunMapClaimDependencies
    \/ RunGenerateQueries
    \/ RunRetrieveEvidence
    \/ RunTemporalAnalysis
    \/ RunCausalEvaluation
    \/ RunMemoryStatePropagation
    \/ RunCrossClaimValidation
    \/ RunVerifyCounterfactualExpectations
    \/ RunCalculateContradictionScore
    \/ RunFinalDecisionWithScore
    \/ RunParseDecision
    \/ HandleException
    \/ WriteResults

SpecLoop == InitLoop /\ [][NextLoop]_vars

-----------------------------------------------------------------------------
(* Claims C9, C10: the run over the stories *)

RunEnded == pc \in {"aborted", "returned", "done"}

\* the stories with both files for which no stage raises
C9_Succeeding ==
    {id \in reliable :
        <<"story_", id>> \in data_dir /\ <<"backstory_", id>> \in data_dir}

RowIds == {results[ix][1] : ix \in 1..Len(results)}

Completed == {log[ix] : ix \in 1..Len(log)}

\* the chain of the claim: claims -> importance/dependencies ->
\* queries/evidence -> temporal -> causal/memory ->
\* dependency-validation/counterfactual -> score -> decision
C10_Chain ==
    <<{"extract_claims"},
      {"classify_importance", "map_claim_dependencies"},
      {"generate_queries", "retrieve_evidence"},
      {"temporal_analysis"},
      {"causal_evaluation", "memory_state_propagation"},
      {"cross_claim_validation", "verify_counterfactual_expectations"},
      {"calculate_contradiction_score"},
      {"final_decision_with_score"}>>

C10_Started(step) == pc = step \/ step \in Completed

InTry == \E ix \in 1..Len(PipelineSteps) : pc = PipelineSteps[ix]

\* C10: within one story no stage starts before every stage whose output it
\* consumes has completed, the stages of a link of the chain start only
\* after all stages of the links before it have completed, and the decision
\* is parsed only after the score stage and the decision stage completed.
C10_StageOrder ==
    InTry =>
        /\ Consumes(pc) \subseteq Completed
        /\ \A ix \in 1..Len(log) :
              Consumes(log[ix]) \subseteq {log[j] : j \in 1..(ix - 1)}
        /\ \A ix, j \in 1..Len(C10_Chain) :
              ix < j => \A step \in C10_Chain[j] :
                  C10_Started(step) => C10_Chain[ix] \subseteq Completed
        /\ pc = "parse_decision" =>
              {"calculate_contradiction_score", "final_decision_with_score"}
                  \subseteq Completed

C10_Witness ==
    /\ pc = "parse_decision"
    /\ Len(log) = Len(PipelineSteps) - 1
    /\ idx > 1

-----------------------------------------------------------------------------
(* Claim C11: the rows handed to write_results *)

\* the place of a story in the sorted list of story files
C11_Place(id) ==
    CHOOSE k \in 1..Len(StoryFiles(data_dir)) :
        StoryId(StoryFiles(data_dir)[k]) = id

\* rows in the order of the story files, one row a story at most, one layout
C11_Ordered(rows) ==
    /\ \A a, b \in 1..Len(rows) :
          a < b => C11_Place(rows[a][1]) < C11_Place(rows[b][1])
    /\ \A a, b \in 1..Len(rows) : Len(rows[a]) = Len(rows[b])

-----------------------------------------------------------------------------
(* parse_decision on every decision text of the bounded vocabulary *)

\* tokens of the text after "Rationale:"
MaxRationale == 3

SeqsUpTo(S, n) == UNION {[1..m -> S] : m \in 0..n}

PredictionParts ==
    {<<>>, <<"Prediction:", " ", "0">>, <<"Prediction:", "0">>,
     <<"Prediction:", " ", "1">>}

ConfidenceParts ==
    {<<>>, <<"Confidence Score:">>}
    \cup {<<"Confidence Score:", " ", v>> : v \in ConfidenceValues}

RationaleTokens == {" ", "\n", "\"", "'", "<failure>", "Rationale:"}

RationaleParts ==
    {<<>>}
    \cup {<<"Rationale:">> \o r : r \in SeqsUpTo(RationaleTokens, MaxRationale)}

\* the texts final_decision_with_score can return: any text of the oracle
DecisionTexts ==
    {p \o <<"\n">> \o c \o <<"\n">> \o r :
        p \in PredictionParts, c \in ConfidenceParts, r \in RationaleParts}

InitParse ==
    /\ pc = "parse_decision"
    /\ decision \in DecisionTexts
    /\ claims = {}
    /\ importance = <<>>
    /\ weighted = <<>>
    /\ memory_states = <<>>
    /\ dependencies = {}
    /\ dependency_analysis = <<>>
    /\ counterfactuals = <<>>
    /\ score_analysis = None
    /\ prediction = None
    /\ NoRun
    /\ NoCall

NextParse ==
    \/ ParseDecisionPrediction
    \/ ParseDecisionConfidence

SpecParse == InitParse /\ [][NextParse]_vars

-----------------------------------------------------------------------------
(* Claims C12, C13: what parse_decision returns *)

ParseEnded == pc \in {"parsed", "raised"}

C12_Quotes == {"\"", "'"}

\* C12: for every decision text parse_decision returns a rationale of a
\* single line: it holds no line break and no surrounding quote character,
\* it is the first line after the "Rationale:" label, and it is the default
\* "No rationale provided" when the text has no such label.
C12_RationaleSingleLine ==
    ParseEnded =>
        /\ pc = "parsed"
        /\ \A k \in 1..Len(rationale) : rationale[k] # "\n"
        /\ rationale # <<>> =>
              /\ Head(rationale) \notin C12_Quotes
              /\ rationale[Len(rationale)] \notin C12_Quotes
        /\ (Contains(decision, <<"Rationale:">>) /\ rationale # <<>>) =>
              Contains(FirstLine(LStrip(AfterLast(decision, "Rationale:"),
                                        Whitespace)),
                       rationale)
        /\ ~Contains(decision, <<"Rationale:">>) =>
              rationale = <<"No rationale provided">>

\* C13: for every decision text the confidence score of parse_decision lies
\* in [0, 1]: a well-formed stated value is used, an absent or malformed one
\* gives 0.8 with prediction 1 and 0.2 with prediction 0, and never an error.
C13_ConfidenceInUnitInterval ==
    ParseEnded =>
        /\ pc # "raised"
        /\ confidence_score \in 0..100
        /\ ScoreMatches(decision) = {} =>
              confidence_score = IF prediction = 1 THEN 80 ELSE 20

-----------------------------------------------------------------------------
(* classify_importance, generate_queries, retrieve_evidence *)

\* lines of the query text
MaxLines == 2

\* classify_importance writes "Importance: MAJOR/MINOR" for a claim, or
\* leaves the field out (None)
ImportanceReplies(cs) == [cs -> Importances \cup {None}]

\* reasoning.py:36-56: the reply is returned as it is
ClassifyImportance ==
    /\ pc = "classify_importance"
    /\ \/ /\ pc' = "raised"
          /\ UNCHANGED importance
       \/ /\ pc' = "generate_queries"
          /\ importance' \in ImportanceReplies(claims)
    /\ UNCHANGED run_vars
    /\ UNCHANGED local_vars
    /\ UNCHANGED <<claims, weighted, memory_states, dependencies,
                   dependency_analysis, counterfactuals, score_analysis,
                   decision, prediction>>

\* lines the oracle can write, as characters: with and without a colon,
\* blank, with a query of two and of three characters, with spaces around
\* the parts, with no claim id, with a second colon
QueryLines ==
    {<<>>,
     <<" ">>,
     <<"a", "b", "c">>,
     <<":">>,
     <<" ", ":", " ">>,
     <<"c", ":">>,
     <<"c", ":", "a", "b">>,
     <<"c", ":", "a", "b", "c">>,
     <<" ", "c", " ", ":", " ", "a", "b", "c", " ">>,
     <<":", "a", "b", "c">>,
     <<"d", ":", "a", ":", "b">>}

QueryTexts == SeqsUpTo(QueryLines, MaxLines)

\* reasoning.py:84-97: the reply is returned as it is; query_text.split("\n")
GenerateQueries ==
    /\ pc = "generate_queries"
    /\ \/ /\ pc' = "raised"
          /\ UNCHANGED query_text
       \/ /\ pc' = "retrieve_evidence"
          /\ query_text' \in QueryTexts
    /\ UNCHANGED <<line_no, evidence>>
    /\ UNCHANGED <<parse_vars, llm_vars, chunk_vars>>
    /\ UNCHANGED run_vars
    /\ UNCHANGED stage_vars

\* the place of the first colon of a line
FirstColon(line) ==
    CHOOSE k \in 1..Len(line) :
        line[k] = ":" /\ \A j \in 1..(k - 1) : line[j] # ":"

\* line.split(":", 1)[0].strip()
Cid(line) == Strip(SubSeq(line, 1, FirstColon(line) - 1), Whitespace)

\* line.split(":", 1)[1].strip()
Query(line) ==
    Strip(SubSeq(line, FirstColon(line) + 1, Len(line)), Whitespace)

\* reasoning.py:106: ":" in line and line.strip()
HasQuery(line) == Contains(line, <<":">>) /\ Strip(line, Whitespace) # <<>>

\* QueryAccepted with a query of two characters searched for as well
QueryAccepted_TwoChars(query) == query # <<>> /\ Len(query) >= 2

\* reasoning.py:112: query and len(query) > 2
QueryAccepted(query) == query # <<>> /\ Len(query) > 2

\* what search_index returns (retrieval.py:96-130): a list of passages
SearchResults == {<<>>, <<"passage">>}

\* evidence[cid] = results
Store(dict, key, value) ==
    [k \in DOMAIN dict \cup {key} |-> IF k = key THEN value ELSE dict[k]]

\* reasoning.py:105-117: one pass of the loop over the lines; search_index
\* returns, or raises and the except clause of line 115 goes to the next line
RetrieveEvidenceLine ==
    /\ pc = "retrieve_evidence"
    /\ line_no < Len(query_text)
    /\ line_no' = line_no + 1
    /\ LET line == query_text[line_no + 1] IN
       IF HasQuery(line) /\ QueryAccepted(Query(line))
       THEN \/ \E found \in SearchResults :
                   evidence' = Store(evidence, Cid(line), found)
            \/ UNCHANGED evidence
       ELSE UNCHANGED evidence
    /\ UNCHANGED <<pc, query_text>>
    /\ UNCHANGED <<parse_vars, llm_vars, chunk_vars>>
    /\ UNCHANGED run_vars
    /\ UNCHANGED stage_vars

\* reasoning.py:119
RetrieveEvidenceReturn ==
    /\ pc = "retrieve_evidence"
    /\ line_no = Len(query_text)
    /\ pc' = "temporal_analysis"
    /\ UNCHANGED evidence_vars
    /\ UNCHANGED <<parse_vars, llm_vars, chunk_vars>>
    /\ UNCHANGED run_vars
    /\ UNCHANGED stage_vars

RetrieveEvidence == RetrieveEvidenceLine \/ RetrieveEvidenceReturn

InitEvidence ==
    /\ pc = "classify_importance"
    /\ claims \in ClaimIds
    /\ importance = <<>>
    /\ weighted = <<>>
    /\ memory_states = <<>>
    /\ dependencies = {}
    /\ dependency_analysis = <<>>
    /\ counterfactuals = <<>>
    /\ score_analysis = None
    /\ decision = <<>>
    /\ prediction = None
    /\ NoRun
    /\ NoCall

NextEvidence ==
    \/ ClassifyImportance
    \/ GenerateQueries
    \/ RetrieveEvidence

SpecEvidence == InitEvidence /\ [][NextEvidence]_vars

-----------------------------------------------------------------------------
(* Claim C14: parsing the oracle's annotations *)

AfterClassify == pc \in {"generate_queries", "retrieve_evidence",
                         "temporal_analysis"}

C14_Trimmed(s) ==
    LET inked == {k \in 1..Len(s) : s[k] # " "}
    IN IF inked = {} THEN <<>>
       ELSE SubSeq(s, CHOOSE k \in inked : \A j \in inked : k <= j,
                      CHOOSE k \in inked : \A j \in inked : k >= j)

\* line reads "<cid> : <query>" with a query of more than two characters
C14_WellFormed(line, cid) ==
    \E p \in 1..Len(line) :
        /\ line[p] = ":"
        /\ \A j \in 1..(p - 1) : line[j] # ":"
        /\ cid = C14_Trimmed(SubSeq(line, 1, p - 1))
        /\ Len(C14_Trimmed(SubSeq(line, p + 1, Len(line)))) > 2

\* every entry of the evidence comes from a well-formed line among those
\* the loop has taken
C14_EntriesWellFormed ==
    pc \in {"retrieve_evidence", "temporal_analysis"} =>
        \A cid \in DOMAIN evidence :
            \E k \in 1..line_no : C14_WellFormed(query_text[k], cid)

-----------------------------------------------------------------------------
(* call_llm *)

\* llm_hf.py:49
max_retries == 3

\* what one requests.post of line 54 comes back with: status 200 with a
\* body the lines 57-60 can read, status 200 with a body they cannot, status
\* 503, any other status, a timeout, any other exception
Responses == {"200", "200 unreadable", "503", "other status", "Timeout",
              "Exception"}

\* llm_hf.py:35-50
CallLlm ==
    /\ pc = "call_llm"
    /\ pc' = IF HF_API_TOKEN THEN "while" ELSE "raised"
    /\ retry_count' = 0
    /\ UNCHANGED <<HF_API_TOKEN, responses>>
    /\ UNCHANGED <<parse_vars, evidence_vars, chunk_vars>>
    /\ UNCHANGED run_vars
    /\ UNCHANGED stage_vars

\* WhileCondition with one more pass allowed
WhileCondition_OneMore(count) == count <= max_retries

\* llm_hf.py:52
WhileCondition(count) == count < max_retries

\* llm_hf.py:75-81: the handler of every exception but the timeout; the
\* RuntimeError of line 68 and an error of lines 57-59 are raised inside the
\* try and come here too
HandleOtherException ==
    IF retry_count < max_retries - 1
    THEN pc' = "while" /\ retry_count' = retry_count + 1
    ELSE pc' = "raised" /\ UNCHANGED retry_count

\* llm_hf.py:52-81: one pass of the loop
CallLlmRequest ==
    /\ pc = "while"
    /\ WhileCondition(retry_count)
    /\ \E response \in Responses :
          /\ responses' = Append(responses, response)
          /\ CASE response = "200" ->
                    pc' = "returned" /\ UNCHANGED retry_count
               [] response \in {"503", "Timeout"} ->
                    pc' = "while" /\ retry_count' = retry_count + 1
               [] OTHER -> HandleOtherException
    /\ UNCHANGED HF_API_TOKEN
    /\ UNCHANGED <<parse_vars, evidence_vars, chunk_vars>>
    /\ UNCHANGED run_vars
    /\ UNCHANGED stage_vars

\* llm_hf.py:83
CallLlmMaxRetries ==
    /\ pc = "while"
    /\ ~WhileCondition(retry_count)
    /\ pc' = "raised"
    /\ UNCHANGED llm_vars
    /\ UNCHANGED <<parse_vars, evidence_vars, chunk_vars>>
    /\ UNCHANGED run_vars
    /\ UNCHANGED stage_vars

InitCall ==
    /\ pc = "call_llm"
    /\ HF_API_TOKEN \in BOOLEAN
    /\ retry_count = 0
    /\ responses = <<>>
    /\ confidence_score = None
    /\ rationale = None
    /\ query_text = <<>>
    /\ line_no = 0
    /\ evidence = <<>>
    /\ words = <<>>
    /\ chunk_size = 0
    /\ overlap = 0
    /\ i = 0
    /\ chunks = <<>>
    /\ NoRun
    /\ NoStage

NextCall ==
    \/ CallLlm
    \/ CallLlmRequest
    \/ CallLlmMaxRetries

SpecCall == InitCall /\ [][NextCall]_vars

\* one thread runs the loop; requests.post has a timeout and time.sleep
\* ends: a pass that can be taken is taken
SpecCallFair == SpecCall /\ WF_vars(NextCall)

-----------------------------------------------------------------------------
(* Claim C15: call_llm is bounded *)

CallEnded == pc \in {"returned", "raised"}

C15_Bounded ==
    /\ Len(responses) <= 3
    /\ pc = "returned" =>
          responses # <<>> /\ responses[Len(responses)] = "200"

\* a pass of the loop that neither returns nor raises adds one to
\* retry_count
C15_PassCounts ==
    (pc = "while" /\ pc' = "while" /\ responses' # responses) =>
        retry_count' = retry_count + 1

\* C15: call_llm comes to an end whatever the service answers: it sends at
\* most 3 requests and then has returned or raised, it returns only after a
\* status 200, and every pass of the loop that neither returns nor raises
\* adds one to retry_count.
C15_CallLlmBounded ==
    /\ []C15_Bounded
    /\ [][C15_PassCounts]_vars
    /\ <>CallEnded

C15_Witness ==
    /\ pc = "returned"
    /\ retry_count = 2
    /\ responses = <<"503", "other status", "200">>

-----------------------------------------------------------------------------
(* chunk_text *)

MaxText == 7
MaxChunkSize == 3

\* the texts handed to chunk_text, as sequences of characters
Texts == SeqsUpTo({"a", " "}, MaxText)

RECURSIVE SplitWords(_, _)
\* retrieval.py:43: text.split(), word being the word read so far
SplitWords(text, word) ==
    IF text = <<>>
    THEN IF word = <<>> THEN <<>> ELSE <<word>>
    ELSE IF Head(text) \in Whitespace
         THEN IF word = <<>>
              THEN SplitWords(Tail(text), <<>>)
              ELSE <<word>> \o SplitWords(Tail(text), <<>>)
         ELSE SplitWords(Tail(text), Append(word, Head(text)))

Split(text) == SplitWords(text, <<>>)

RECURSIVE Join(_)
\* retrieval.py:48: " ".join(chunk)
Join(chunk) ==
    IF chunk = <<>> THEN <<>>
    ELSE IF Len(chunk) = 1 THEN chunk[1]
    ELSE chunk[1] \o <<" ">> \o Join(Tail(chunk))

\* retrieval.py:47: list[from:to] for 0 <= from
Slice(list, from, to) ==
    SubSeq(list, from + 1, IF to < Len(list) THEN to ELSE Len(list))

\* NextIndex stepping one word too far
NextIndex_SkipWord(index, size, lap) == index + size - lap + 1

\* retrieval.py:49
NextIndex(index, size, lap) == index + size - lap

\* the loop is cut off after this many chunks; it is longer than any list
\* of chunks a text of MaxText characters gives when the index advances
MaxChunks == MaxText

\* retrieval.py:46-49: one pass of the loop
ChunkTextAppend ==
    /\ pc = "while"
    /\ i < Len(words)
    /\ Len(chunks) < MaxChunks
    /\ chunks' = Append(chunks, Join(Slice(words, i, i + chunk_size)))
    /\ i' = NextIndex(i, chunk_size, overlap)
    /\ UNCHANGED <<pc, words, chunk_size, overlap>>
    /\ UNCHANGED <<parse_vars, evidence_vars, llm_vars>>
    /\ UNCHANGED run_vars
    /\ UNCHANGED stage_vars

\* retrieval.py:46, 50
ChunkTextReturn ==
    /\ pc = "while"
    /\ ~(i < Len(words))
    /\ pc' = "returned"
    /\ UNCHANGED chunk_vars
    /\ UNCHANGED <<parse_vars, evidence_vars, llm_vars>>
    /\ UNCHANGED run_vars
    /\ UNCHANGED stage_vars

\* retrieval.py:41-45; overlap = chunk_size is among the arguments, where the
\* index stands still
InitChunk ==
    /\ pc = "while"
    /\ \E text \in Texts : words = Split(text)
    /\ chunk_size \in 1..MaxChunkSize
    /\ overlap \in 0..chunk_size
    /\ i = 0
    /\ chunks = <<>>
    /\ confidence_score = None
    /\ rationale = None
    /\ query_text = <<>>
    /\ line_no = 0
    /\ evidence = <<>>
    /\ HF_API_TOKEN = FALSE
    /\ retry_count = 0
    /\ responses = <<>>
    /\ NoRun
    /\ NoStage

NextChunk ==
    \/ ChunkTextAppend
    \/ ChunkTextReturn

SpecChunk == InitChunk /\ [][NextChunk]_vars

\* the loop runs in one thread with nothing to wait for
SpecChunkFair == SpecChunk /\ WF_vars(NextChunk)

-----------------------------------------------------------------------------
(* Claim C16: chunk_text terminates and covers its input *)

C16_Pre == chunk_size > overlap /\ overlap >= 0

\* where chunk k starts if each start is chunk_size - overlap after the last
C16_Start(k) == (k - 1) * (chunk_size - overlap)

C16_Chunks ==
    /\ i = Len(chunks) * (chunk_size - overlap)
    /\ Len(chunks) <= Len(words)
    /\ \A k \in DOMAIN chunks :
          /\ Len(Split(chunks[k])) <= chunk_size
          /\ Split(chunks[k]) =
                Slice(words, C16_Start(k), C16_Start(k) + chunk_size)

C16_Covered ==
    \A w \in DOMAIN words :
       \E k \in DOMAIN chunks :
          /\ w - C16_Start(k) \in DOMAIN Split(chunks[k])
          /\ Split(chunks[k])[w - C16_Start(k)] = words[w]

C16_IndexAdvances ==
    chunks' # chunks =>
        /\ i' > i
        /\ i' = i + (chunk_size - overlap)
        /\ Len(chunks') = Len(chunks) + 1

\* C16: for every word list and every chunk_size > overlap >= 0 the loop of
\* chunk_text ends; every chunk has at most chunk_size words and is the
\* stretch of the word list that starts chunk_size - overlap words after the
\* start of the chunk before it; at the return every word of the text is in
\* a chunk; and each pass of the loop moves the index up.
C16_ChunkTextCovers ==
    /\ [](C16_Pre => C16_Chunks /\ (pc = "returned" => C16_Covered))
    /\ [][C16_Pre => C16_IndexAdvances]_vars
    /\ C16_Pre ~> (pc = "returned")

C16_Witness ==
    /\ pc = "returned"
    /\ chunk_size = 3
    /\ overlap = 1
    /\ Len(words) = 4
    /\ Len(chunks) = 2
    /\ Split(chunks[2]) = SubSeq(words, 3, 4)

====
